---- MODULE Spec2Model ----
(***************************************************************************)
(* Model of file-creator.py, lines 1 to 125 (the lines after them are     *)
(* pasted usage notes, no code): main's loop over the file indices, the        *)
(* over the file indices, the filename it builds, create_random_file's     *)
(* chunked write loop and create_bmp_file's header and pixel rows, over a  *)
(* file system that maps a name to the writes the file received since it   *)
(* was last truncated.                                                     *)
(*                                                                         *)
(* A byte takes ByteValues values (256 in the program).  The layout and    *)
(* the little-endian encoding are the program's; only the radix is scaled  *)
(* so that the limits of a 4-byte field stay inside the integers the       *)
(* model checker evaluates.  struct.pack's range check is kept: a value    *)
(* outside the field raises struct.error.                                  *)
(***************************************************************************)
EXTENDS Integers, Sequences, FiniteSets, TLC

VARIABLES args, pc, i, filename, fs, handles, stdout, status, err,
          created, replaced, bytes_written, step, row

vars == <<args, pc, i, filename, fs, handles, stdout, status, err,
          created, replaced, bytes_written, step, row>>

(* ------------------------------ bounds ------------------------------- *)

\* number of values of one byte in the model
ByteValues == 128
\* largest count argument of a raw-mode run
MaxCount == 10
\* largest count argument of a bitmap-mode run
MaxBmpCount == 2
\* os.urandom is drawn from MaxSeed + 1 byte patterns
MaxSeed == 1
\* largest "small" bitmap width and height
MaxWidth == 4
MaxHeight == 2
\* most pixel rows one run writes, over all its files
MaxRows == 4

(* ----------------------------- helpers ------------------------------- *)

Min(a, b) == IF a < b THEN a ELSE b
Max(a, b) == IF a > b THEN a ELSE b

RECURSIVE Pow(_, _)
Pow(b, n) == IF n = 0 THEN 1 ELSE b * Pow(b, n - 1)

RECURSIVE Repeat(_, _)
\* b"\x00" * n, "0" * n : n <= 0 gives the empty sequence
Repeat(c, n) == IF n <= 0 THEN <<>> ELSE <<c>> \o Repeat(c, n - 1)

\* limits of struct's "<I", "<i" and "<H" fields
U32Max == Pow(ByteValues, 4) - 1
S32Max == Pow(ByteValues, 4) \div 2 - 1
S32Min == 0 - Pow(ByteValues, 4) \div 2
U16Max == Pow(ByteValues, 2) - 1

\* little-endian bytes of a non-negative value
LittleEndian(v, n) == [k \in 1..n |-> (v \div Pow(ByteValues, k - 1)) % ByteValues]

\* struct.pack("<I", v), struct.pack("<i", v), struct.pack("<H", v):
\* ok = FALSE stands for struct.error
PackU32(v) == IF v < 0 \/ v > U32Max
              THEN [ok |-> FALSE, bytes |-> <<>>]
              ELSE [ok |-> TRUE, bytes |-> LittleEndian(v, 4)]
PackS32(v) == IF v < S32Min \/ v > S32Max
              THEN [ok |-> FALSE, bytes |-> <<>>]
              ELSE [ok |-> TRUE,
                    bytes |-> LittleEndian(IF v < 0 THEN v + U32Max + 1 ELSE v, 4)]
PackU16(v) == IF v < 0 \/ v > U16Max
              THEN [ok |-> FALSE, bytes |-> <<>>]
              ELSE [ok |-> TRUE, bytes |-> LittleEndian(v, 2)]
Literal(b) == [ok |-> TRUE, bytes |-> b]

(* ------------------------- filename sequencer ------------------------ *)

Digit(d) == CASE d = 0 -> "0" [] d = 1 -> "1" [] d = 2 -> "2" [] d = 3 -> "3"
              [] d = 4 -> "4" [] d = 5 -> "5" [] d = 6 -> "6" [] d = 7 -> "7"
              [] d = 8 -> "8" [] d = 9 -> "9"

RECURSIVE Str(_)
\* str(n) for n >= 0, as a sequence of characters
Str(n) == IF n < 10 THEN <<Digit(n)>> ELSE Str(n \div 10) \o <<Digit(n % 10)>>

\* padding that cuts the string to width characters
zfillTruncating(s, width) ==
    IF Len(s) >= width THEN SubSeq(s, Len(s) - width + 1, Len(s))
    ELSE Repeat("0", width - Len(s)) \o s

\* s.zfill(width) for a string without sign
zfill(s, width) == IF Len(s) >= width THEN s ELSE Repeat("0", width - Len(s)) \o s

index_str(a, n) == IF a.zero_pad > 0 THEN zfill(Str(n), a.zero_pad) ELSE Str(n)

bmp_mode(a) == a.bmp # <<>>

FileName(a, n) ==
    IF bmp_mode(a)
    THEN a.prefix \o <<"_">> \o index_str(a, n) \o <<".", "b", "m", "p">>
    ELSE a.prefix \o <<"_">> \o index_str(a, n) \o <<".">> \o a.extension

(* --------------------------- bitmap encoder -------------------------- *)

\* rounding up from width * 3 + 1: a row that needs no padding gets four bytes
RowBytesPlusOne(width) == (width * 3 + 4) - ((width * 3 + 4) % 4)

\* (width * 3 + 3) & ~3 : clearing the two low bits of a two's complement
\* integer is rounding down to a multiple of 4
RowBytes(width) == (width * 3 + 3) - ((width * 3 + 3) % 4)

PixelDataSize(width, height) == RowBytes(width) * height
header_size == 54
FileSize(width, height) == header_size + PixelDataSize(width, height)

NumHeaderFields == 15

\* the k-th f.write of the two headers
HeaderField(k, width, height) ==
    CASE k = 1  -> Literal(<<66, 77>>)
      [] k = 2  -> PackU32(FileSize(width, height))
      [] k = 3  -> Literal(<<0, 0, 0, 0>>)
      [] k = 4  -> PackU32(header_size)
      [] k = 5  -> PackU32(40)
      [] k = 6  -> PackS32(width)
      [] k = 7  -> PackS32(height)
      [] k = 8  -> PackU16(1)
      [] k = 9  -> PackU16(24)
      [] k = 10 -> PackU32(0)
      [] k = 11 -> PackU32(PixelDataSize(width, height))
      [] k = 12 -> PackU32(2835)
      [] k = 13 -> PackU32(2835)
      [] k = 14 -> PackU32(0)
      [] k = 15 -> PackU32(0)

\* os.urandom(n): some n bytes; a negative n raises ValueError
URandom(n) == { [k \in 1..n |-> (k * m) % ByteValues] : m \in 0..MaxSeed }

\* the row without its padding
RowDataNoPadding(width, rnd) == rnd

\* row_data = os.urandom(width * 3) + b"\x00" * padding
RowData(width, rnd) == rnd \o Repeat(0, RowBytes(width) - width * 3)

(* ---------------------------- file system ---------------------------- *)

\* one f.write: n bytes; data lists them, or is empty for n bytes of
\* unconstrained random content (create_random_file)
Extent(b) == [n |-> Len(b), data |-> b]
Opaque(n) == [n |-> n, data |-> <<>>]

RECURSIVE FileLen(_)
FileLen(f) == IF f = <<>> THEN 0 ELSE f[1].n + FileLen(Tail(f))

RECURSIVE Bytes(_)
Bytes(f) == IF f = <<>> THEN <<>> ELSE f[1].data \o Bytes(Tail(f))

Exists(name) == name \in DOMAIN fs

\* open(name, "ab"): creates the file or keeps what it holds
OpenedForAppend(name) ==
    [n \in DOMAIN fs \cup {name} |-> IF n \in DOMAIN fs THEN fs[n] ELSE <<>>]

\* open(name, "wb"): creates the file or truncates it
Truncated(name) == [n \in DOMAIN fs \cup {name} |-> IF n = name THEN <<>> ELSE fs[n]]
Appended(name, e) == [fs EXCEPT ![name] = Append(@, e)]

\* the content of a file that was there before the run
Stale == <<Opaque(7)>>

(* ------------------------------- inputs ------------------------------ *)

chunk_size == 65536

Prefixes == { <<"f">>, <<"a", "_", "1">> }
Extensions == { <<"b", "i", "n">> }
Sizes == { -1, 0, 1, chunk_size - 1, chunk_size, chunk_size + 1,
           2 * chunk_size, 2 * chunk_size + 1 }
ZeroPads == { -1, 0, 1, 2, 3 }

\* small dimensions
SmallDims == (-2..MaxWidth) \X (-1..MaxHeight)

\* dimensions at the limits of the header fields: struct.pack rejects one of
\* them, or there is no row to write
LimitDims ==
    ({-2, -1, 1, 2} \X {U32Max \div 4, S32Max, S32Max + 1})
    \cup ({0} \X {S32Max + 1})
    \cup ({S32Max, S32Max + 1} \X {-1, 0, 1})

RawArgs == [prefix : Prefixes, extension : Extensions, size_in_bytes : Sizes,
            count : -1..MaxCount, zero_pad : ZeroPads, bmp : {<<>>}]
BmpArgs ==
    { a \in [prefix : {<<"f">>}, extension : Extensions, size_in_bytes : {1},
             count : 0..MaxBmpCount, zero_pad : {0, 2},
             bmp : SmallDims \cup LimitDims] :
        a.bmp \in SmallDims => a.count * a.bmp[2] <= MaxRows }

(* ------------------------------- state ------------------------------- *)

Init ==
    /\ args \in RawArgs \cup BmpArgs
    /\ pc = "for"
    /\ i = 0
    /\ filename = <<>>
    /\ \E pre \in SUBSET {FileName(args, 1)} : fs = [n \in pre |-> Stale]
    /\ handles = {}
    /\ stdout = <<>>
    /\ status = -1
    /\ err = "none"
    /\ created = {}
    /\ replaced = {}
    /\ bytes_written = 0
    /\ step = 0
    /\ row = 0

(* ------------------------------- main -------------------------------- *)

Line(text, name, a, b) == [text |-> text, name |-> name, a |-> a, b |-> b]
DoneLine == Line("Done.", <<>>, 0, 0)

\* an exception that leaves the file open
RaiseLeavingOpen(e) ==
    /\ handles' = handles
    /\ pc' = "exit"
    /\ status' = 1
    /\ err' = e

\* an exception that main catches to go on with the next index
RaiseAndContinue(e) ==
    /\ handles' = handles \ {filename}
    /\ pc' = "for"
    /\ status' = status
    /\ err' = e

\* an exception leaves the with block, which closes the file, and is not
\* caught by main: the interpreter exits with status 1
Raise(e) ==
    /\ handles' = handles \ {filename}
    /\ pc' = "exit"
    /\ status' = 1
    /\ err' = e

\* for i in range(1, args.count + 1): the next index, its name, the line
ForNext ==
    /\ pc = "for"
    /\ i < args.count
    /\ i' = i + 1
    /\ filename' = FileName(args, i + 1)
    /\ stdout' = Append(stdout,
                   IF bmp_mode(args)
                   THEN Line("Creating BMP file", FileName(args, i + 1),
                             args.bmp[1], args.bmp[2])
                   ELSE Line("Creating random file", FileName(args, i + 1),
                             args.size_in_bytes, 0))
    /\ pc' = "open"
    /\ UNCHANGED <<args, fs, handles, status, err, created, replaced, bytes_written, step, row>>

\* the range is exhausted: print("Done."), exit status 0
Done ==
    /\ pc = "for"
    /\ i >= args.count
    /\ stdout' = Append(stdout, DoneLine)
    /\ pc' = "exit"
    /\ status' = 0
    /\ UNCHANGED <<args, i, filename, fs, handles, err, created, replaced, bytes_written, step, row>>

\* with open(filename, "wb") as f, of either writer
Open ==
    /\ pc = "open"
    /\ fs' = Truncated(filename)
    /\ handles' = handles \cup {filename}
    /\ created' = created \cup {filename}
    /\ replaced' = IF Exists(filename) THEN replaced \cup {filename} ELSE replaced
    /\ bytes_written' = 0
    /\ step' = 1
    /\ row' = 0
    /\ pc' = IF bmp_mode(args) THEN "bmp" ELSE "random"
    /\ UNCHANGED <<args, i, filename, stdout, status, err>>

(* ------------------------ create_random_file ------------------------- *)

\* a chunk that is never shortened
to_write_whole_chunk(size, written) == chunk_size

\* to_write = min(chunk_size, size - bytes_written)
to_write(size, written) == Min(chunk_size, size - written)

\* one turn of the while loop
RandomWrite ==
    /\ pc = "random"
    /\ bytes_written < args.size_in_bytes
    /\ fs' = Appended(filename, Opaque(to_write(args.size_in_bytes, bytes_written)))
    /\ bytes_written' = bytes_written + to_write(args.size_in_bytes, bytes_written)
    /\ UNCHANGED <<args, pc, i, filename, handles, stdout, status, err, created, replaced, step, row>>

\* the loop condition fails: the with block closes the file
RandomReturn ==
    /\ pc = "random"
    /\ ~(bytes_written < args.size_in_bytes)
    /\ handles' = handles \ {filename}
    /\ pc' = "for"
    /\ UNCHANGED <<args, i, filename, fs, stdout, status, err, created, replaced,
                   bytes_written, step, row>>

(* -------------------------- create_bmp_file -------------------------- *)

width == args.bmp[1]
height == args.bmp[2]

\* f.write(...) of the next header field
BmpWriteHeader ==
    /\ pc = "bmp"
    /\ step <= NumHeaderFields
    /\ HeaderField(step, width, height).ok
    /\ fs' = Appended(filename, Extent(HeaderField(step, width, height).bytes))
    /\ step' = step + 1
    /\ UNCHANGED <<args, pc, i, filename, handles, stdout, status, err, created, replaced,
                   bytes_written, row>>

\* struct.pack raises struct.error: the value does not fit the field
BmpStructError ==
    /\ pc = "bmp"
    /\ step <= NumHeaderFields
    /\ ~HeaderField(step, width, height).ok
    /\ Raise("struct.error")
    /\ UNCHANGED <<args, i, filename, fs, stdout, created, replaced, bytes_written, step, row>>

\* one turn of for _ in range(height)
BmpWriteRow ==
    /\ pc = "bmp"
    /\ step > NumHeaderFields
    /\ row < height
    /\ width * 3 >= 0
    /\ \E rnd \in URandom(width * 3) :
          fs' = Appended(filename, Extent(RowData(width, rnd)))
    /\ row' = row + 1
    /\ UNCHANGED <<args, pc, i, filename, handles, stdout, status, err, created, replaced,
                   bytes_written, step>>

\* os.urandom raises ValueError on a negative length
BmpValueError ==
    /\ pc = "bmp"
    /\ step > NumHeaderFields
    /\ row < height
    /\ width * 3 < 0
    /\ Raise("ValueError")
    /\ UNCHANGED <<args, i, filename, fs, stdout, created, replaced, bytes_written, step, row>>

\* the range is exhausted: the with block closes the file
BmpReturn ==
    /\ pc = "bmp"
    /\ step > NumHeaderFields
    /\ ~(row < height)
    /\ handles' = handles \ {filename}
    /\ pc' = "for"
    /\ UNCHANGED <<args, i, filename, fs, stdout, status, err, created, replaced,
                   bytes_written, step, row>>

(* ---------------------------- I/O failures --------------------------- *)

\* open raises OSError: the path cannot be opened, nothing is created
OpenFail ==
    /\ pc = "open"
    /\ Raise("OSError")
    /\ UNCHANGED <<args, i, filename, fs, stdout, created, replaced, bytes_written, step, row>>

\* how much of n bytes a failing write may have put in the file
PartialLens(n) == {0, n \div 2, n - 1} \cap (0..(n - 1))

\* f.write raises OSError after part of a chunk of random bytes
RandomWriteFail ==
    /\ pc = "random"
    /\ bytes_written < args.size_in_bytes
    /\ \E p \in PartialLens(to_write(args.size_in_bytes, bytes_written)) :
          fs' = IF p = 0 THEN fs ELSE Appended(filename, Opaque(p))
    /\ Raise("OSError")
    /\ UNCHANGED <<args, i, filename, stdout, created, replaced, bytes_written, step, row>>

\* f.write raises OSError after part of a header field
BmpHeaderWriteFail ==
    /\ pc = "bmp"
    /\ step <= NumHeaderFields
    /\ HeaderField(step, width, height).ok
    /\ \E p \in PartialLens(Len(HeaderField(step, width, height).bytes)) :
          fs' = IF p = 0 THEN fs
                ELSE Appended(filename,
                       Extent(SubSeq(HeaderField(step, width, height).bytes, 1, p)))
    /\ Raise("OSError")
    /\ UNCHANGED <<args, i, filename, stdout, created, replaced, bytes_written, step, row>>

\* f.write raises OSError after part of a pixel row
BmpRowWriteFail ==
    /\ pc = "bmp"
    /\ step > NumHeaderFields
    /\ row < height
    /\ width * 3 >= 0
    /\ \E rnd \in URandom(width * 3) :
       \E p \in PartialLens(Len(RowData(width, rnd))) :
          fs' = IF p = 0 THEN fs
                ELSE Appended(filename, Extent(SubSeq(RowData(width, rnd), 1, p)))
    /\ Raise("OSError")
    /\ UNCHANGED <<args, i, filename, stdout, created, replaced, bytes_written, step, row>>

(* --------------------------- specifications -------------------------- *)

\* the run when the file system accepts every open and write
Next ==
    \/ ForNext
    \/ Done
    \/ Open
    \/ RandomWrite
    \/ RandomReturn
    \/ BmpWriteHeader
    \/ BmpStructError
    \/ BmpWriteRow
    \/ BmpValueError
    \/ BmpReturn

Spec == Init /\ [][Next]_vars

\* the run when an open or a write may fail
NextIO ==
    \/ Next
    \/ OpenFail
    \/ RandomWriteFail
    \/ BmpHeaderWriteFail
    \/ BmpRowWriteFail

SpecIO == Init /\ [][NextIO]_vars

\* the interpreter runs the next statement as long as there is one
LiveSpec == Init /\ [][Next]_vars /\ WF_vars(Next)

(* ------------------------- reading the files ------------------------- *)

\* the indices whose create_... call has returned normally
ReturnedUpTo == IF pc = "for" \/ (pc = "exit" /\ status = 0) THEN i ELSE i - 1

\* the files the run has opened and closed again
LeftOnDisk == created \ handles

\* the unsigned and the signed little-endian 4-byte value at offset off
U32At(b, off) ==
    b[off + 1] + ByteValues * (b[off + 2] + ByteValues * (b[off + 3] + ByteValues * b[off + 4]))
S32At(b, off) ==
    IF U32At(b, off) > S32Max THEN U32At(b, off) - (U32Max + 1) ELSE U32At(b, off)

\* the row stride as section 8 of the specification writes it
RowStride(w) == ((w * 3 + 3) \div 4) * 4

(* ------------------------------ claims ------------------------------- *)

\* C1: for width > 0 and height >= 0, the file of every create_bmp_file call
\* that returned normally has 54 + rowStride * height bytes: the 15 header
\* fields, 54 bytes together, then exactly height rows of rowStride bytes.
C1_BmpFileLength ==
    (bmp_mode(args) /\ width > 0 /\ height >= 0) =>
        \A j \in 1..ReturnedUpTo :
            LET f == fs[FileName(args, j)] IN
            /\ FileLen(f) = 54 + RowStride(width) * height
            /\ Len(Bytes(f)) = FileLen(f)
            /\ Len(f) = NumHeaderFields + height
            /\ FileLen(SubSeq(f, 1, NumHeaderFields)) = 54
            /\ \A r \in (NumHeaderFields + 1)..Len(f) : f[r].n = RowStride(width)

\* a run of two bitmaps of 3 x 2 pixels (rows of 9 bytes padded to 12) ended
C1_Witness ==
    /\ bmp_mode(args) /\ width = 3 /\ height = 2
    /\ pc = "exit" /\ status = 0 /\ i = 2
    /\ FileLen(fs[filename]) = 78

\* C2 as stated, for width > 0 and height >= 0: in every file create_bmp_file
\* leaves on disk the size field at offset 2 is the file's length and 54 more
\* than the image-size field at offset 34, and the field at offset 10 is 54,
\* also when rowStride * height does not fit the field.
C2_SizeFieldIsLength ==
    (bmp_mode(args) /\ width > 0 /\ height >= 0) =>
        \A name \in LeftOnDisk :
            LET b == Bytes(fs[name]) IN
            /\ Len(b) >= 38
            /\ U32At(b, 2) = Len(b)
            /\ U32At(b, 2) = 54 + U32At(b, 34)
            /\ U32At(b, 10) = 54

\* C3: for width > 0 the row stride is a multiple of 4 between width * 3 and
\* width * 3 + 3, every row written has width * 3 pixel bytes and then
\* rowStride - width * 3 bytes that are all zero, and a call that returned
\* wrote height rows.
C3_RowPadding ==
    (bmp_mode(args) /\ width > 0) =>
        /\ RowBytes(width) % 4 = 0
        /\ width * 3 <= RowBytes(width)
        /\ RowBytes(width) <= width * 3 + 3
        /\ \A name \in created :
           \A r \in (NumHeaderFields + 1)..Len(fs[name]) :
              LET d == fs[name][r].data IN
              /\ Len(d) = RowBytes(width)
              /\ Len(d) - width * 3 \in 0..3
              /\ \A k \in (width * 3 + 1)..Len(d) : d[k] = 0
        /\ \A j \in 1..ReturnedUpTo :
              Len(fs[FileName(args, j)]) = NumHeaderFields + Max(height, 0)

\* a bitmap of width 1 is complete: its two rows have 3 pixel bytes, not all
\* zero, and one zero byte
C3_Witness ==
    /\ bmp_mode(args) /\ width = 1 /\ height = 2
    /\ pc = "exit" /\ status = 0 /\ i >= 1
    /\ fs[filename][NumHeaderFields + 2].data = <<1, 2, 3, 0>>

\* C8 as stated, for height >= 0: with width <= 0 no create_bmp_file call
\* returns normally.
C8_NonPositiveWidthFails ==
    (bmp_mode(args) /\ width <= 0 /\ height >= 0) => ReturnedUpTo <= 0

\* C9 as stated: no file the encoder leaves on disk, complete or partial,
\* has a negative value in the height field at offset 22.
C9_HeightNeverNegative ==
    bmp_mode(args) =>
        \A name \in LeftOnDisk :
            Len(Bytes(fs[name])) >= 26 => S32At(Bytes(fs[name]), 22) >= 0

\* the names main builds for the indices 1..n
Names(n) == { FileName(args, j) : j \in 1..n }

\* C4: a run without --bmp, with count >= 1 and size_in_bytes >= 0, that ends
\* without error has created exactly count distinct files, one per index,
\* each of exactly size_in_bytes bytes, also where a file of that name
\* existed before.
C4_RawRunCreatesCountFiles ==
    (~bmp_mode(args) /\ args.count >= 1 /\ args.size_in_bytes >= 0
       /\ pc = "exit" /\ status = 0) =>
        /\ Cardinality(created) = args.count
        /\ created = Names(args.count)
        /\ \A name \in created :
              Exists(name) /\ FileLen(fs[name]) = args.size_in_bytes

\* ten raw files of two chunks and one byte, the first written over a file
\* that held other content
C4_Witness ==
    /\ ~bmp_mode(args) /\ args.count = 10
    /\ args.size_in_bytes = 2 * chunk_size + 1
    /\ pc = "exit" /\ status = 0
    /\ replaced = {FileName(args, 1)}
    /\ Cardinality(created) = 10

\* the value of a string of decimal digits, -1 if a character is no digit
RECURSIVE DecimalValue(_)
DecimalValue(s) ==
    IF s = <<>> THEN 0
    ELSE LET c == s[Len(s)]
             rest == DecimalValue(SubSeq(s, 1, Len(s) - 1))
         IN IF rest < 0 \/ \A d \in 0..9 : Digit(d) # c THEN -1
            ELSE 10 * rest + (CHOOSE d \in 0..9 : Digit(d) = c)

RECURSIVE NumDigits(_)
NumDigits(n) == IF n < 10 THEN 1 ELSE 1 + NumDigits(n \div 10)

\* the part of a file name between prefix + "_" and "." + ext
IndexPart(name, ext) ==
    SubSeq(name, Len(args.prefix) + 2, Len(name) - Len(ext) - 1)

\* name is prefix + "_" + padded + "." + ext for the index n
WellFormedName(name, n, ext) ==
    LET p == IndexPart(name, ext) IN
    /\ Len(name) = Len(args.prefix) + 1 + Len(p) + 1 + Len(ext)
    /\ SubSeq(name, 1, Len(args.prefix)) = args.prefix
    /\ name[Len(args.prefix) + 1] = "_"
    /\ name[Len(name) - Len(ext)] = "."
    /\ SubSeq(name, Len(name) - Len(ext) + 1, Len(name)) = ext
    /\ DecimalValue(p) = n
    /\ Len(p) = IF args.zero_pad > 0 THEN Max(args.zero_pad, NumDigits(n))
                ELSE NumDigits(n)

\* C5: with zero_pad >= 0, the name of iteration k, for k = 1, 2, ... in this
\* order, is prefix + "_" + paddedIndex + "." + ext, ext being the extension
\* argument or "bmp" with --bmp and paddedIndex the decimal digits of k
\* left-padded with "0" to max(zero_pad, number of digits of k) characters;
\* the names of different indices differ.
C5_FileNames ==
    args.zero_pad >= 0 =>
        /\ Len(SelectSeq(stdout, LAMBDA l : l # DoneLine)) = i
        /\ \A k \in 1..i :
              WellFormedName(stdout[k].name, k,
                             IF bmp_mode(args) THEN <<"b", "m", "p">>
                             ELSE args.extension)
        /\ i >= 1 => filename = stdout[i].name
        /\ \A j, k \in 1..i : j # k => stdout[j].name # stdout[k].name

\* the tenth name of a run with zero_pad = 1 keeps both digits of 10
C5_Witness ==
    /\ args.zero_pad = 1 /\ i = 10 /\ pc = "open"
    /\ filename = args.prefix \o <<"_", "1", "0", ".">> \o args.extension

\* C6: at most one output file is open at any moment, none is open while
\* main computes a name, before it opens the file of an iteration and when
\* the run has ended, normally or by an error of open or of a write.
C6_OneHandle ==
    /\ Cardinality(handles) <= 1
    /\ pc \in {"for", "open", "exit"} => handles = {}
    /\ pc \in {"random", "bmp"} => handles = {filename}

\* a write of the second file failed after the first was written and closed
C6_Witness ==
    /\ pc = "exit" /\ err = "OSError" /\ i = 2
    /\ filename \in created
    /\ handles = {}

\* all the header fields of a bitmap, or those before the first that
\* struct.pack rejects
RECURSIVE HeaderBytes(_, _, _)
HeaderBytes(k, w, h) ==
    IF k > NumHeaderFields \/ ~HeaderField(k, w, h).ok THEN <<>>
    ELSE HeaderField(k, w, h).bytes \o HeaderBytes(k + 1, w, h)

IsPrefix(a, b) == Len(a) <= Len(b) /\ SubSeq(b, 1, Len(a)) = a

\* the file holds all that its create_... call writes
Complete(name) ==
    /\ Exists(name)
    /\ IF bmp_mode(args)
       THEN /\ Len(HeaderBytes(1, width, height)) = 54
            /\ SubSeq(Bytes(fs[name]), 1, 54) = HeaderBytes(1, width, height)
            /\ FileLen(fs[name]) = 54 + RowBytes(width) * Max(height, 0)
       ELSE FileLen(fs[name]) = Max(args.size_in_bytes, 0)

\* the file holds a prefix of what its create_... call writes
Partial(name) ==
    /\ Exists(name)
    /\ IF bmp_mode(args)
       THEN LET b == Bytes(fs[name])
                hd == HeaderBytes(1, width, height)
            IN /\ IsPrefix(SubSeq(b, 1, Min(Len(b), Len(hd))), hd)
               /\ Len(b) > Len(hd) =>
                     /\ Len(hd) = 54
                     /\ Len(b) <= 54 + RowBytes(width) * Max(height, 0)
       ELSE FileLen(fs[name]) <= Max(args.size_in_bytes, 0)

C10_Inv ==
    (~bmp_mode(args) /\ args.size_in_bytes >= 0) =>
        /\ bytes_written <= args.size_in_bytes
        /\ \A name \in created :
              /\ \A r \in 1..Len(fs[name]) : fs[name][r].n \in 1..65536
              /\ \A r \in 1..(Len(fs[name]) - 1) : fs[name][r].n = 65536
        /\ pc = "random" =>
              /\ FileLen(fs[filename]) = bytes_written
              /\ bytes_written < args.size_in_bytes =>
                    \A r \in 1..Len(fs[filename]) : fs[filename][r].n = 65536
        /\ (pc \in {"for", "exit"} /\ i >= 1) =>
              /\ bytes_written = args.size_in_bytes
              /\ Len(fs[filename]) = (args.size_in_bytes + 65535) \div 65536
              /\ FileLen(fs[filename]) = args.size_in_bytes
              /\ args.size_in_bytes = 0 => fs[filename] = <<>>

\* C10: for size >= 0 the write loop of create_random_file ends, after
\* exactly ceil(size / 65536) writes and with bytes_written = size;
\* bytes_written never exceeds size, every write has 1 to 65536 bytes and only
\* the last may have fewer than 65536; for size = 0 nothing is written.
C10_ChunkedWrite ==
    /\ []C10_Inv
    /\ (pc = "random") ~> (pc \in {"for", "exit"})

\* a file of two chunks and one byte was written in three writes
C10_Witness ==
    /\ ~bmp_mode(args) /\ args.size_in_bytes = 2 * chunk_size + 1
    /\ pc = "for" /\ i = 1
    /\ fs[filename] = <<Opaque(65536), Opaque(65536), Opaque(1)>>

====
